---------------------------- MODULE Spec2Model ----------------------------
(***************************************************************************)
(* A model of forwarder.py: the statsd forwarder that polls two files      *)
(* (reference game data, sample snapshots), aggregates circuit signals     *)
(* into gauges, formats them as statsd lines, batches the lines into       *)
(* packets and sends the packets over UDP.                                 *)
(*                                                                         *)
(* Text is modelled as a sequence of one-character strings, bytes as a     *)
(* sequence of numbers.  The pure functions are operators; each has a      *)
(* specification of its own that draws its arguments in Init and applies   *)
(* it in one action.  The forward loop of main() is the specification      *)
(* Spec, one action per statement that touches a file or the socket.       *)
(***************************************************************************)
EXTENDS Integers, Sequences, FiniteSets, TLC

VARIABLES
    pc,                       \* position in main()'s loop, or "input"/"returned" of a function call
    lines, max_size,          \* statsd_packets_from_lines: its arguments
    packets,                  \* statsd_packets_from_lines: the packets yielded; main(): packets
    game_data,                \* statsd_gauges_from_samples_data: argument; main(): game_data
    samples,                  \* statsd_gauges_from_samples_data: samples_data; main(): samples
    gauges,                   \* statsd_gauges_from_samples_data: the gauges yielded
    gauge, flavor, line,      \* LINE_FORMATTERS[flavor](gauge) and its result
    data_file,                \* the file at data_path: None or [mtime, content]
    samples_file,             \* the file at samples_path: None or [id, content]
    last_game_data_mod_time,  \* main(): last_game_data_mod_time
    game_data_mod_time,       \* main(): game_data_mod_time
    sent,                     \* datagrams handed to sock.sendto in the current pass of the loop
    hist                      \* history: what the passes of the loop did (read by the properties only)

vars == <<pc, lines, max_size, packets, game_data, samples, gauges, gauge, flavor, line,
          data_file, samples_file, last_game_data_mod_time, game_data_mod_time, sent, hist>>

\* None.  An Optional[str] that is set is Some(text): the empty text is not None.
None == <<>>

Some(v) == <<v>>

(***************************************************************************)
(* Characters.                                                             *)
(***************************************************************************)
NL == "\n"

\* U+00E9, a letter outside ASCII (two bytes in UTF-8).
EAcute == "U+00E9"

\* U+00C9, its upper case.
EAcuteUpper == "U+00C9"

LowerLetters ==
    <<"a","b","c","d","e","f","g","h","i","j","k","l","m",
      "n","o","p","q","r","s","t","u","v","w","x","y","z">>

UpperLetters ==
    <<"A","B","C","D","E","F","G","H","I","J","K","L","M",
      "N","O","P","Q","R","S","T","U","V","W","X","Y","Z">>

DigitChars == <<"0","1","2","3","4","5","6","7","8","9">>

Range(s) == {s[i] : i \in DOMAIN s}

IndexOf(s, c) == CHOOSE i \in DOMAIN s : s[i] = c

LowerSet == Range(LowerLetters)
UpperSet == Range(UpperLetters)
DigitSet == Range(DigitChars)

\* str.isalpha() of one character.
isalpha(c) == c \in LowerSet \cup UpperSet \cup {EAcute, EAcuteUpper}

\* str.isalnum() of one character.
isalnum(c) == isalpha(c) \/ c \in DigitSet

\* str.lower() of one character.
lower(c) ==
    IF c \in UpperSet THEN LowerLetters[IndexOf(UpperLetters, c)]
    ELSE IF c = EAcuteUpper THEN EAcute
    ELSE c

\* The ASCII punctuation the program's text uses, with its code point.
Punctuation ==
    [c \in {" ", "!", "#", ",", "-", ".", ":", ";", "=", "_", "|"} |->
        CASE c = " " -> 32 [] c = "!" -> 33 [] c = "#" -> 35 [] c = "," -> 44
          [] c = "-" -> 45 [] c = "." -> 46 [] c = ":" -> 58 [] c = ";" -> 59
          [] c = "=" -> 61 [] c = "_" -> 95 [] c = "|" -> 124]

Chars == LowerSet \cup UpperSet \cup DigitSet \cup DOMAIN Punctuation \cup {NL, EAcute, EAcuteUpper}

\* The code point of each character.
OrdTable ==
    [c \in Chars |->
        IF c = NL THEN 10
        ELSE IF c = EAcute THEN 233
        ELSE IF c = EAcuteUpper THEN 201
        ELSE IF c \in DigitSet THEN 47 + IndexOf(DigitChars, c)
        ELSE IF c \in UpperSet THEN 64 + IndexOf(UpperLetters, c)
        ELSE IF c \in LowerSet THEN 96 + IndexOf(LowerLetters, c)
        ELSE Punctuation[c]]

ChrTable == [n \in {OrdTable[c] : c \in Chars} |-> CHOOSE c \in Chars : OrdTable[c] = n]

\* ord(c).
Ord(c) == OrdTable[c]

\* chr(n).
Chr(n) == ChrTable[n]

\* One character's UTF-8 bytes (code points below 0x800).
EncodeChar(c) ==
    IF Ord(c) < 128 THEN <<Ord(c)>>
    ELSE <<192 + (Ord(c) \div 64), 128 + (Ord(c) % 64)>>

\* str.encode("utf-8"): the bytes of the characters, in order (computed by halves).
RECURSIVE encode(_)
encode(s) ==
    IF s = <<>> THEN <<>>
    ELSE IF Len(s) = 1 THEN EncodeChar(s[1])
    ELSE LET h == Len(s) \div 2
         IN  encode(SubSeq(s, 1, h)) \o encode(SubSeq(s, h + 1, Len(s)))

\* bytes.decode("utf-8"), of well-formed input.
RECURSIVE decode(_)
decode(b) ==
    IF b = <<>> THEN <<>>
    ELSE IF b[1] < 128 THEN <<Chr(b[1])>> \o decode(Tail(b))
    ELSE <<Chr((b[1] - 192) * 64 + (b[2] - 128))>> \o decode(Tail(Tail(b)))

\* sep.join(parts), of texts.
RECURSIVE join(_, _)
join(sep, parts) ==
    IF parts = <<>> THEN <<>>
    ELSE IF Len(parts) = 1 THEN parts[1]
    ELSE parts[1] \o sep \o join(sep, Tail(parts))

\* s.split(c): the pieces of s between the occurrences of the character c.
RECURSIVE split(_, _)
split(s, c) ==
    IF \A i \in DOMAIN s : s[i] # c THEN <<s>>
    ELSE LET i == CHOOSE k \in DOMAIN s : s[k] = c /\ \A j \in 1..(k - 1) : s[j] # c
         IN  <<SubSeq(s, 1, i - 1)>> \o split(SubSeq(s, i + 1, Len(s)), c)

\* s.split(c, 1): at most one split, at the first occurrence of c.
split1(s, c) ==
    IF \A i \in DOMAIN s : s[i] # c THEN <<s>>
    ELSE LET i == CHOOSE k \in DOMAIN s : s[k] = c /\ \A j \in 1..(k - 1) : s[j] # c
         IN  <<SubSeq(s, 1, i - 1), SubSeq(s, i + 1, Len(s))>>

\* str(n) of an integer.
RECURSIVE NatStr(_)
NatStr(n) == IF n < 10 THEN <<DigitChars[n + 1]>> ELSE NatStr(n \div 10) \o <<DigitChars[(n % 10) + 1]>>

IntStr(n) == IF n < 0 THEN <<"-">> \o NatStr(-n) ELSE NatStr(n)

(***************************************************************************)
(* statsd_packets_from_lines                                               *)
(***************************************************************************)
\* One pass of the for loop: st = [buf, out], the buffer and the packets yielded so far.
PackLine(st, ln, size) ==
    LET flush == Len(st.buf) + 1 + Len(ln) > size
        out1  == IF flush THEN Append(st.out, encode(st.buf)) ELSE st.out
        buf1  == IF flush THEN <<>> ELSE st.buf
        buf2  == IF buf1 # <<>> THEN buf1 \o <<NL>> ELSE buf1
    IN  [buf |-> buf2 \o ln, out |-> out1]

RECURSIVE PackLoop(_, _, _)
PackLoop(st, ls, size) ==
    IF ls = <<>> THEN st ELSE PackLoop(PackLine(st, Head(ls), size), Tail(ls), size)

\* The packets the generator yields, in order.
statsd_packets_from_lines(ls, size) ==
    LET st == PackLoop([buf |-> <<>>, out |-> <<>>], ls, size)
    IN  IF st.buf # <<>> THEN Append(st.out, encode(st.buf)) ELSE st.out


(***************************************************************************)
(* normalize_metric_name, statsd_gauges_from_samples_data                  *)
(***************************************************************************)
\* Tag(name, value=None).
Tag(name, value) == [name |-> name, value |-> value]

\* Gauge(name, n, tags).
Gauge(name, n, tags) == [name |-> name, n |-> n, tags |-> tags]

Min(a, b) == IF a < b THEN a ELSE b

MetricNameLimit == 200

normalize_metric_name(name) ==
    LET n1 == IF ~isalpha(name[1]) THEN <<"x">> \o name ELSE name
        n2 == [i \in DOMAIN n1 |-> lower(n1[i])]
        n3 == [i \in DOMAIN n2 |->
                 IF ~isalnum(n2[i]) /\ n2[i] # "_" /\ n2[i] # "." THEN "_" ELSE n2[i]]
    IN  SubSeq(n3, 1, Min(MetricNameLimit, Len(n3)))

\* [Tag(*kv.split("=", 1)) for kv in tags.split(",")]
ParseTags(text) ==
    LET kvs == split(text, ",")
    IN  [i \in DOMAIN kvs |->
           LET p == split1(kvs[i], "=")
           IN  IF Len(p) = 2 THEN Tag(p[1], Some(p[2])) ELSE Tag(p[1], None)]

\* dict.get(key, default) of a JSON object.
Get(obj, key, default) == IF key \in DOMAIN obj THEN obj[key] ELSE default

\* name + "|" + signal_type + "." + signal_name
GaugeKey(name, signal_type, signal_name) == name \o <<"|">> \o signal_type \o <<".">> \o signal_name

SignalTags(tags, signal_type, signal_name) ==
    tags \o <<Tag(<<"s","i","g","n","a","l","_","t","y","p","e">>, Some(signal_type)),
              Tag(<<"s","i","g","n","a","l","_","n","a","m","e">>, Some(signal_name))>>

\* The dict `gauges` is a sequence of [key, gauge] in insertion order.
HasKey(d, key) == \E i \in DOMAIN d : d[i].key = key

\* AddSignal with the count of a key seen again assigned, not added.
AddSignalOverwriting(d, name, tags, signal) ==
    LET key == name \o <<"|">> \o signal.signal.type \o <<".">> \o signal.signal.name
    IN  IF ~(\E i \in DOMAIN d : d[i].key = key)
        THEN Append(d, [key |-> key,
                        gauge |-> [name |-> name, n |-> signal.count,
                                   tags |-> tags \o
                                      <<[name |-> <<"s","i","g","n","a","l","_","t","y","p","e">>,
                                         value |-> <<signal.signal.type>>],
                                        [name |-> <<"s","i","g","n","a","l","_","n","a","m","e">>,
                                         value |-> <<signal.signal.name>>]>>]])
        ELSE [i \in DOMAIN d |->
                IF d[i].key = key THEN [d[i] EXCEPT !.gauge.n = signal.count] ELSE d[i]]

\* One pass of the loop over the red and green signals.
AddSignal(d, name, tags, signal) ==
    LET key == GaugeKey(name, signal.signal.type, signal.signal.name)
    IN  IF ~HasKey(d, key)
        THEN Append(d, [key |-> key,
                        gauge |-> Gauge(name, signal.count,
                                        SignalTags(tags, signal.signal.type, signal.signal.name))])
        ELSE [i \in DOMAIN d |->
                IF d[i].key = key
                THEN [d[i] EXCEPT !.gauge.n = d[i].gauge.n + signal.count]
                ELSE d[i]]

RECURSIVE AddSignals(_, _, _, _)
AddSignals(d, name, tags, signals) ==
    IF signals = <<>> THEN d
    ELSE AddSignals(AddSignal(d, name, tags, Head(signals)), name, tags, Tail(signals))

\* AddAbsent without the test `key not in gauges`: an observed gauge is set to 0.
AddAbsentOverwriting(d, name, tags, signal_type, signal_name) ==
    LET key == name \o <<"|">> \o signal_type \o <<".">> \o signal_name
        zero == [key |-> key,
                 gauge |-> [name |-> name, n |-> 0,
                            tags |-> tags \o
                               <<[name |-> <<"s","i","g","n","a","l","_","t","y","p","e">>,
                                  value |-> <<signal_type>>],
                                 [name |-> <<"s","i","g","n","a","l","_","n","a","m","e">>,
                                  value |-> <<signal_name>>]>>]]
    IN  IF ~(\E i \in DOMAIN d : d[i].key = key)
        THEN Append(d, zero)
        ELSE [i \in DOMAIN d |-> IF d[i].key = key THEN zero ELSE d[i]]

\* One pass of the loop over a category's signal names (absent_signals = "treat-as-0").
AddAbsent(d, name, tags, signal_type, signal_name) ==
    LET key == GaugeKey(name, signal_type, signal_name)
    IN  IF ~HasKey(d, key)
        THEN Append(d, [key |-> key,
                        gauge |-> Gauge(name, 0, SignalTags(tags, signal_type, signal_name))])
        ELSE d

RECURSIVE AddAbsents(_, _, _, _, _)
AddAbsents(d, name, tags, signal_type, signal_names) ==
    IF signal_names = <<>> THEN d
    ELSE AddAbsents(AddAbsent(d, name, tags, signal_type, Head(signal_names)),
                    name, tags, signal_type, Tail(signal_names))

Virtual == <<"v","i","r","t","u","a","l">>
Item == <<"i","t","e","m">>
Fluid == <<"f","l","u","i","d">>
TreatAs0 == "treat-as-0"
Ignore == "ignore"

\* The gauges one entity yields, in the order of gauges.values(); none for an empty name.
EntityGauges(gd, entity) ==
    LET settings == entity.settings
        name == normalize_metric_name(settings.name)
        tags == ParseTags(settings.tags)
        d0 == AddSignals(<<>>, name, tags,
                         Get(entity, "red_signals", <<>>) \o Get(entity, "green_signals", <<>>))
        d1 == IF settings.absent_signals = TreatAs0
              THEN AddAbsents(
                     AddAbsents(
                       AddAbsents(d0, name, tags, Virtual, gd.virtual_signal_names),
                       name, tags, Item, gd.item_names),
                     name, tags, Fluid, gd.fluid_names)
              ELSE d0
    IN  IF settings.name = <<>> THEN <<>> ELSE [i \in DOMAIN d1 |-> d1[i].gauge]

\* What the generator yields while it is at each entity of samples_data["entities"].
YieldsPerEntity(gd, sd) == [i \in DOMAIN sd.entities |-> EntityGauges(gd, sd.entities[i])]

RECURSIVE Flatten(_)
Flatten(ss) == IF ss = <<>> THEN <<>> ELSE Head(ss) \o Flatten(Tail(ss))

\* The gauges the generator yields, in order.
statsd_gauges_from_samples_data(gd, sd) == Flatten(YieldsPerEntity(gd, sd))

(***************************************************************************)
(* The line formatters                                                     *)
(***************************************************************************)
VanillaTag(t) == IF t.value = None THEN t.name ELSE t.name \o <<"=">> \o t.value[1]

vanilla_line_formatter(g) ==
    LET tagged_series == join(<<";">>, <<g.name>> \o [i \in DOMAIN g.tags |-> VanillaTag(g.tags[i])])
    IN  tagged_series \o <<":">> \o IntStr(g.n) \o <<"|","g">>

DogTag(t) == IF t.value = None THEN t.name ELSE t.name \o <<":">> \o t.value[1]

dogstatsd_line_formatter(g) ==
    LET tags_str == join(<<",">>, [i \in DOMAIN g.tags |-> DogTag(g.tags[i])])
    IN  g.name \o <<":">> \o IntStr(g.n) \o <<"|","g","|","#">> \o tags_str

Flavors == {"vanilla", "dogstatsd"}

LINE_FORMATTERS(f, g) ==
    IF f = "vanilla" THEN vanilla_line_formatter(g) ELSE dogstatsd_line_formatter(g)

(***************************************************************************)
(* Values the variables of one specification keep under the others.        *)
(***************************************************************************)
packVars == <<lines, max_size>>
aggVars == <<gauges>>
fmtVars == <<gauge, line>>
loopVars == <<data_file, samples_file, last_game_data_mod_time, game_data_mod_time, sent>>

PackIdle == lines = <<>> /\ max_size = 0
AggIdle == gauges = <<>>
FmtIdle == gauge = None /\ line = <<>>
LoopIdle ==
    /\ data_file = None /\ samples_file = None
    /\ last_game_data_mod_time = 0 /\ game_data_mod_time = 0
    /\ sent = <<>>

(***************************************************************************)
(* SpecPack: one call of statsd_packets_from_lines.                        *)
(***************************************************************************)
MaxLineLen == 3
MaxLines == 3
MaxSize == 7

LineChars == {"a", EAcute}

SeqsUpTo(S, n) == UNION {[1..k -> S] : k \in 0..n}

\* A line is a non-empty text without a newline (every formatter's result ends in "|g").
Lines == SeqsUpTo(LineChars, MaxLineLen) \ {<<>>}

InitPack ==
    /\ pc = "input"
    /\ lines \in SeqsUpTo(Lines, MaxLines)
    /\ max_size \in 1..MaxSize
    /\ packets = <<>>
    /\ game_data = None /\ samples = None /\ flavor = "vanilla" /\ hist = <<>>
    /\ AggIdle /\ FmtIdle /\ LoopIdle

Pack ==
    /\ pc = "input"
    /\ packets' = statsd_packets_from_lines(lines, max_size)
    /\ pc' = "returned"
    /\ UNCHANGED <<packVars, game_data, samples, flavor, hist, aggVars, fmtVars, loopVars>>

NextPack == Pack

SpecPack == InitPack /\ [][NextPack]_vars

\* The lines a list of packets holds: each packet decoded, the texts joined by
\* newline, the result split on newline; no packets hold no lines.
LinesOfPackets(ps) ==
    IF ps = <<>> THEN <<>>
    ELSE split(join(<<NL>>, [i \in DOMAIN ps |-> decode(ps[i])]), NL)

\* C1: for every sequence of lines and every max_size, the packets yielded, decoded,
\* joined by newline and split on newline, are exactly the lines, in their order: no
\* line lost, duplicated, reordered or split, and no empty entry added by an empty packet.
C1_PackingIsLossless == pc = "returned" => LinesOfPackets(packets) = lines

\* C2: every packet yielded holds one or more lines joined by newline and is at most
\* max_size characters long, unless it is exactly one line that is itself longer than
\* max_size; lines that fill max_size exactly stay in one packet.
C2_PacketsHoldLinesWithinSize ==
    pc = "returned" =>
        \A i \in DOMAIN packets :
            LET text == decode(packets[i])
                held == split(text, NL)
            IN  /\ \A j \in DOMAIN held : held[j] \in Lines
                /\ \/ Len(text) <= max_size
                   \/ Len(held) = 1 /\ Len(held[1]) > max_size

(***************************************************************************)
(* SpecAgg: one call of statsd_gauges_from_samples_data.                   *)
(***************************************************************************)
\* A sample's size: the number of its entities plus the number of its signals.
MaxSampleSize == 4

\* {"signal": {"type": t, "name": n}, "count": c}
CircuitSignal(t, n, c) == [signal |-> [type |-> t, name |-> n], count |-> c]

SignalSet ==
    {CircuitSignal(Item, <<"a">>, 1), CircuitSignal(Item, <<"b">>, 2), CircuitSignal(Fluid, <<"a">>, -3)}

EntityNames == {<<>>, <<"3","M"," ">>}

TagTexts == {<<"k","=","v",",","t">>}

Policies == {Ignore, TreatAs0}

\* An entity; the key green_signals is left out when there is no green signal.
GameEntity(name, tags, absent, red, green) ==
    IF green = <<>>
    THEN [settings |-> [name |-> name, tags |-> tags, absent_signals |-> absent],
          red_signals |-> red]
    ELSE [settings |-> [name |-> name, tags |-> tags, absent_signals |-> absent],
          red_signals |-> red, green_signals |-> green]

\* The sum of the first k values of a sequence of numbers.
RECURSIVE SumTo(_, _)
SumTo(f, k) == IF k = 0 THEN 0 ELSE f[k] + SumTo(f, k - 1)

\* The entities with the given names, tags and policies; entity i takes its rl[i] red
\* and then its gl[i] green signals, in order, from the sequence sig.
EntitiesOf(nm, tg, pol, rl, gl, sig) ==
    [i \in DOMAIN nm |->
        LET off == SumTo(rl, i - 1) + SumTo(gl, i - 1)
        IN  GameEntity(nm[i], tg[i], pol[i],
                       SubSeq(sig, off + 1, off + rl[i]),
                       SubSeq(sig, off + rl[i] + 1, off + rl[i] + gl[i]))]

GameDatas ==
    {[virtual_signal_names |-> <<<<"b">>>>,
      item_names |-> <<<<"a">>, <<"b">>>>,
      fluid_names |-> <<<<"a">>>>],
     [virtual_signal_names |-> <<>>,
      item_names |-> <<<<"a">>, <<"a">>>>,
      fluid_names |-> <<<<"b">>>>]}

InitAgg ==
    /\ pc = "input"
    /\ game_data \in GameDatas
    /\ \E n \in 0..MaxSampleSize :
       \E nm \in [1..n -> EntityNames], tg \in [1..n -> TagTexts], pol \in [1..n -> Policies],
          rl \in [1..n -> 0..(MaxSampleSize - n)], gl \in [1..n -> 0..(MaxSampleSize - n)] :
          /\ n + SumTo(rl, n) + SumTo(gl, n) <= MaxSampleSize
          /\ \E sig \in [1..(SumTo(rl, n) + SumTo(gl, n)) -> SignalSet] :
                samples = [entities |-> EntitiesOf(nm, tg, pol, rl, gl, sig)]
    /\ gauges = <<>>
    /\ hist = <<>>
    /\ packets = <<>> /\ flavor = "vanilla"
    /\ PackIdle /\ FmtIdle /\ LoopIdle

\* hist: the gauges yielded at each entity, in the order of the entities.
Aggregate ==
    /\ pc = "input"
    /\ gauges' = statsd_gauges_from_samples_data(game_data, samples)
    /\ hist' = YieldsPerEntity(game_data, samples)
    /\ pc' = "returned"
    /\ UNCHANGED <<game_data, samples, packets, flavor, packVars, fmtVars, loopVars>>

NextAgg == Aggregate

SpecAgg == InitAgg /\ [][NextAgg]_vars

\* The value of the tag `name`, which SignalTags put last in a gauge's tags.
TagValue(g, name) ==
    LET i == CHOOSE k \in DOMAIN g.tags : g.tags[k].name = name /\ k > Len(g.tags) - 2
    IN  g.tags[i].value[1]

SignalTypeOf(g) == TagValue(g, <<"s","i","g","n","a","l","_","t","y","p","e">>)
SignalNameOf(g) == TagValue(g, <<"s","i","g","n","a","l","_","n","a","m","e">>)

\* C3: in one call, the gauges yielded hold at most one gauge for each (normalized
\* entity name, signal type, signal name), whatever the entities, also when two
\* entities have the same name or names that normalize to the same text.
C3_OneGaugePerTriple ==
    pc = "returned" =>
        \A i, j \in DOMAIN gauges :
            (/\ gauges[i].name = gauges[j].name
             /\ SignalTypeOf(gauges[i]) = SignalTypeOf(gauges[j])
             /\ SignalNameOf(gauges[i]) = SignalNameOf(gauges[j])) => i = j

\* The signals of an entity, red then green, and the (type, name) pairs among them.
SignalsOf(entity) == Get(entity, "red_signals", <<>>) \o Get(entity, "green_signals", <<>>)

PairOf(signal) == <<signal.signal.type, signal.signal.name>>

ObservedPairs(entity) == {PairOf(SignalsOf(entity)[k]) : k \in DOMAIN SignalsOf(entity)}

\* The sum of the counts of the signals of a sequence that have the pair pr.
RECURSIVE SumOfPair(_, _)
SumOfPair(signals, pr) ==
    IF signals = <<>> THEN 0
    ELSE (IF PairOf(Head(signals)) = pr THEN Head(signals).count ELSE 0)
         + SumOfPair(Tail(signals), pr)

GaugePair(g) == <<SignalTypeOf(g), SignalNameOf(g)>>

\* The positions from..to of `out` hold exactly one gauge for each pair of `pairs`
\* and nothing else.
OnePerPair(out, from, to, pairs) ==
    /\ to - from + 1 = Cardinality(pairs)
    /\ \A k \in from..to : GaugePair(out[k]) \in pairs
    /\ \A pr \in pairs : \E k \in from..to : GaugePair(out[k]) = pr

\* C4: an entity with a non-empty name and absent_signals = "ignore" yields exactly
\* one gauge for each distinct (signal type, signal name) observed and no other; the
\* gauge's count is the sum of the counts of the red and green signals of that pair.
C4_IgnoreOneGaugePerObservedSignal ==
    pc = "returned" =>
        \A i \in DOMAIN samples.entities :
            LET entity == samples.entities[i]
                out == hist[i]
            IN  (entity.settings.name # <<>> /\ entity.settings.absent_signals = Ignore) =>
                    /\ OnePerPair(out, 1, Len(out), ObservedPairs(entity))
                    /\ \A k \in DOMAIN out :
                          out[k].n = SumOfPair(SignalsOf(entity), GaugePair(out[k]))

\* An entity with "ignore" and a non-empty name had the same signal on the red and on
\* the green wire and a different one besides, and yielded the sum and the other.
C4_Witness ==
    /\ pc = "returned"
    /\ \E i \in DOMAIN samples.entities :
          LET entity == samples.entities[i]
          IN  /\ entity.settings.name # <<>>
              /\ entity.settings.absent_signals = Ignore
              /\ Len(entity.red_signals) = 2
              /\ "green_signals" \in DOMAIN entity
              /\ entity.green_signals[1] = entity.red_signals[1]
              /\ entity.red_signals[2] # entity.red_signals[1]
              /\ Len(hist[i]) = 2
              /\ hist[i][1].n = 2 * entity.red_signals[1].count

\* The reference signals: every name of each category's list, with the category.
ReferencePairs(gd) ==
    {<<Virtual, gd.virtual_signal_names[k]>> : k \in DOMAIN gd.virtual_signal_names}
      \cup {<<Item, gd.item_names[k]>> : k \in DOMAIN gd.item_names}
      \cup {<<Fluid, gd.fluid_names[k]>> : k \in DOMAIN gd.fluid_names}

CategoryRank(t) == IF t = Virtual THEN 1 ELSE IF t = Item THEN 2 ELSE 3

\* C5: an entity with a non-empty name and absent_signals = "treat-as-0" yields one
\* gauge for each observed pair, with the sum of its counts, then one gauge of count 0
\* for each reference signal not observed, virtual before item before fluid, and
\* nothing else.
C5_TreatAs0AddsZeroGauges ==
    pc = "returned" =>
        \A i \in DOMAIN samples.entities :
            LET entity == samples.entities[i]
                out == hist[i]
                observed == ObservedPairs(entity)
                absent == ReferencePairs(game_data) \ observed
                k0 == Cardinality(observed)
            IN  (entity.settings.name # <<>> /\ entity.settings.absent_signals = TreatAs0) =>
                    /\ Len(out) = k0 + Cardinality(absent)
                    /\ OnePerPair(out, 1, k0, observed)
                    /\ \A k \in 1..k0 : out[k].n = SumOfPair(SignalsOf(entity), GaugePair(out[k]))
                    /\ OnePerPair(out, k0 + 1, Len(out), absent)
                    /\ \A k \in (k0 + 1)..Len(out) : out[k].n = 0
                    /\ \A k, l \in (k0 + 1)..Len(out) :
                          k < l => CategoryRank(SignalTypeOf(out[k])) <= CategoryRank(SignalTypeOf(out[l]))

\* An entity with "treat-as-0" had a reference signal observed (on both wires) and
\* yielded its sum first, then zero gauges of all three categories.
C5_Witness ==
    /\ pc = "returned"
    /\ \E i \in DOMAIN samples.entities :
          LET entity == samples.entities[i]
              out == hist[i]
          IN  /\ entity.settings.name # <<>>
              /\ entity.settings.absent_signals = TreatAs0
              /\ ObservedPairs(entity) = {<<Item, <<"a">>>>}
              /\ Len(SignalsOf(entity)) = 2
              /\ <<Item, <<"a">>>> \in ReferencePairs(game_data)
              /\ Len(out) = 4
              /\ out[1].n = 2
              /\ SignalTypeOf(out[2]) = Virtual /\ out[2].n = 0
              /\ SignalTypeOf(out[3]) = Item /\ out[3].n = 0
              /\ SignalTypeOf(out[4]) = Fluid /\ out[4].n = 0

(***************************************************************************)
(* SpecFmt: one call of a line formatter.                                  *)
(***************************************************************************)
MaxTags == 2

GaugeNames == {<<"m">>, <<"x","3","_">>}

Counts == {-3, 0, 7, 12}

TagSet == {Tag(<<"k">>, Some(<<"v">>)), Tag(<<"t">>, None), Tag(<<"e">>, Some(<<>>))}

InitFmt ==
    /\ pc = "input"
    /\ gauge \in {Gauge(n, c, t) : n \in GaugeNames, c \in Counts, t \in SeqsUpTo(TagSet, MaxTags)}
    /\ flavor \in Flavors
    /\ line = <<>>
    /\ packets = <<>> /\ game_data = None /\ samples = None /\ hist = <<>>
    /\ PackIdle /\ AggIdle /\ LoopIdle

Format ==
    /\ pc = "input"
    /\ line' = LINE_FORMATTERS(flavor, gauge)
    /\ pc' = "returned"
    /\ UNCHANGED <<gauge, flavor, packets, game_data, samples, hist, packVars, aggVars, loopVars>>

NextFmt == Format

SpecFmt == InitFmt /\ [][NextFmt]_vars

\* C6: the dogstatsd line of a gauge is <name>:<count>|g, followed by |# and the tags
\* joined by commas (key:value, or the bare name of a tag without a value) only when
\* the gauge has a tag; without tags the line is exactly <name>:<count>|g.
C6_DogstatsdTagSuffixOnlyWithTags ==
    (pc = "returned" /\ flavor = "dogstatsd") =>
        line = gauge.name \o <<":">> \o IntStr(gauge.n) \o <<"|","g">>
                 \o (IF gauge.tags = <<>> THEN <<>>
                     ELSE <<"|","#">> \o join(<<",">>, [i \in DOMAIN gauge.tags |->
                              IF gauge.tags[i].value = None THEN gauge.tags[i].name
                              ELSE gauge.tags[i].name \o <<":">> \o gauge.tags[i].value[1]]))

(***************************************************************************)
(* Spec: the forward loop of main(), with the producer of the two files.   *)
(***************************************************************************)
MaxPasses == 3
MaxSnapshots == 2
MaxMtime == 2

\* The size main() passes to statsd_packets_from_lines.
PacketSize == 1432

\* The sleeps of the loop, in tenths of a second: time.sleep(1.0), (0.1), (1.0).
SleepNoData == 10
SleepNoSamples == 1
SleepError == 10

\* What the reference file holds when its modification time is t.
DataContent(t) ==
    IF t % 2 = 1
    THEN [virtual_signal_names |-> <<<<"b">>>>, item_names |-> <<>>, fluid_names |-> <<>>]
    ELSE [virtual_signal_names |-> <<>>,
          item_names |-> <<<<"a">>, <<"b">>, <<"c">>>>,
          fluid_names |-> <<<<"a">>>>]

DataVersions == {[mtime |-> t, content |-> DataContent(t)] : t \in 1..MaxMtime}

\* An entity name longer than normalize_metric_name keeps, and a long tag: a line of
\* such an entity is some 390 characters, and four of them do not fit one packet.
LongName == [i \in 1..240 |-> "M"]
LongTags == [i \in 1..150 |-> IF i = 2 THEN "=" ELSE "t"]

\* What a sample file may hold.
SampleContents ==
    {[entities |-> <<GameEntity(LongName, LongTags, Ignore, <<CircuitSignal(Item, <<"a">>, 7)>>, <<>>)>>],
     [entities |-> <<GameEntity(LongName, LongTags, TreatAs0, <<>>, <<>>)>>]}

\* list(statsd_packets_from_lines((line_formatter(g) for g in gauges), 1432))
BuildPackets(gd, sd, f) ==
    LET g == statsd_gauges_from_samples_data(gd, sd)
    IN  statsd_packets_from_lines([i \in DOMAIN g |-> LINE_FORMATTERS(f, g[i])], PacketSize)

\* BuildPackets, for the contents the files of this specification hold.
PacketsTable ==
    [gd \in {v.content : v \in DataVersions}, sd \in SampleContents, f \in Flavors |->
        BuildPackets(gd, sd, f)]

\* The history of the current pass of the loop, and of the passes before it.
\*   pass: the passes ended;  written: the snapshots the producer wrote;
\*   read: the id of the snapshot this pass read and parsed (0: none);
\*   parsed_data: this pass parsed the reference file;
\*   unlinked: this pass deleted the sample file;
\*   failed_at: the step of this pass that raised ("": none);
\*   failures: the passes in a row, up to now, that ended in the except clause;
\*   slept: the last time.sleep, in tenths of a second;
\*   sent_in: <<id, pass>> for each snapshot id a pass sent a packet of.
NewPass(h) ==
    [h EXCEPT !.pass = @ + 1, !.read = 0, !.parsed_data = FALSE, !.unlinked = FALSE,
              !.failed_at = ""]

Init ==
    /\ pc = "exists_data"
    /\ flavor \in Flavors
    /\ data_file = None /\ samples_file = None
    /\ last_game_data_mod_time = 0
    /\ game_data = None
    /\ game_data_mod_time = None /\ samples = None /\ packets = None
    /\ sent = <<>>
    /\ hist = [pass |-> 0, written |-> 0, read |-> 0, parsed_data |-> FALSE, unlinked |-> FALSE,
               failed_at |-> "", failures |-> 0, slept |-> 0, sent_in |-> {}]
    /\ PackIdle /\ AggIdle /\ FmtIdle

idleVars == <<lines, max_size, gauges, gauge, line, flavor>>

\* The next pass of the while loop begins; the locals it assigns before it reads
\* them are unset, and nothing is sent yet.
Continue(h) ==
    /\ pc' = "exists_data"
    /\ game_data_mod_time' = None /\ samples' = None /\ packets' = None
    /\ sent' = <<>>
    /\ hist' = NewPass(h)

\* A handler with a retry limit: after a failed pass, the next exception ends the process.
HandlerGivingUp(step) == IF hist.failures >= 1 THEN "exit" ELSE "except"

\* Where an exception raised at a step of the try block goes: the except clause.
Handler(step) == "except"

Raise(step) ==
    /\ pc' = Handler(step)
    /\ hist' = [hist EXCEPT !.failed_at = step]

(* The producer *)
\* The reference file is written, or replaced by a version of another time (a newer
\* one, or an older one put back).
WriteData ==
    /\ \E v \in DataVersions :
          /\ data_file # v
          /\ data_file' = v
    /\ UNCHANGED <<pc, packets, game_data, samples, samples_file, last_game_data_mod_time,
                   game_data_mod_time, sent, hist, idleVars>>

\* A new snapshot is written at samples_path, over the last one if it is still there.
WriteSamples ==
    /\ hist.written < MaxSnapshots
    /\ \E c \in SampleContents :
          samples_file' = [id |-> hist.written + 1, content |-> c]
    /\ hist' = [hist EXCEPT !.written = @ + 1]
    /\ UNCHANGED <<pc, packets, game_data, samples, data_file, last_game_data_mod_time,
                   game_data_mod_time, sent, idleVars>>

(* The loop *)
\* if not os.path.exists(data_path): time.sleep(1.0); continue
ExistsData ==
    /\ pc = "exists_data"
    /\ hist.pass < MaxPasses
    /\ IF data_file = None
       THEN Continue([hist EXCEPT !.slept = SleepNoData, !.failures = 0])
       ELSE /\ pc' = "getmtime"
            /\ UNCHANGED <<packets, samples, game_data_mod_time, sent, hist>>
    /\ UNCHANGED <<game_data, data_file, samples_file, last_game_data_mod_time, idleVars>>

\* game_data_mod_time = os.path.getmtime(data_path)
GetMtime ==
    /\ pc = "getmtime"
    /\ \/ /\ data_file # None
          /\ game_data_mod_time' = data_file.mtime
          /\ pc' = "load"
          /\ UNCHANGED hist
       \/ /\ Raise("getmtime")
          /\ UNCHANGED game_data_mod_time
    /\ UNCHANGED <<packets, game_data, samples, data_file, samples_file,
                   last_game_data_mod_time, sent, idleVars>>

\* if game_data is None or game_data_mod_time > last_game_data_mod_time:
\*     game_data = json.load(f)
\* last_game_data_mod_time = game_data_mod_time
LoadGameData ==
    /\ pc = "load"
    /\ IF game_data = None \/ game_data_mod_time > last_game_data_mod_time
       THEN \/ /\ data_file # None
               /\ game_data' = data_file.content
               /\ last_game_data_mod_time' = game_data_mod_time
               /\ pc' = "exists_samples"
               /\ hist' = [hist EXCEPT !.parsed_data = TRUE]
            \/ /\ Raise("load")
               /\ UNCHANGED <<game_data, last_game_data_mod_time>>
       ELSE /\ last_game_data_mod_time' = game_data_mod_time
            /\ pc' = "exists_samples"
            /\ UNCHANGED <<game_data, hist>>
    /\ UNCHANGED <<packets, samples, data_file, samples_file, game_data_mod_time, sent, idleVars>>

\* if not os.path.exists(samples_path): time.sleep(0.1); continue
ExistsSamples ==
    /\ pc = "exists_samples"
    /\ IF samples_file = None
       THEN Continue([hist EXCEPT !.slept = SleepNoSamples, !.failures = 0])
       ELSE /\ pc' = "read_samples"
            /\ UNCHANGED <<packets, samples, game_data_mod_time, sent, hist>>
    /\ UNCHANGED <<game_data, data_file, samples_file, last_game_data_mod_time, idleVars>>

\* with open(samples_path) as f: samples = json.load(f)
ReadSamples ==
    /\ pc = "read_samples"
    /\ \/ /\ samples_file # None
          /\ samples' = samples_file.content
          /\ pc' = "unlink"
          /\ hist' = [hist EXCEPT !.read = samples_file.id]
       \/ /\ Raise("read_samples")
          /\ UNCHANGED samples
    /\ UNCHANGED <<packets, game_data, data_file, samples_file, last_game_data_mod_time,
                   game_data_mod_time, sent, idleVars>>

\* The loop without its os.unlink: the sample file stays where it is.
UnlinkSkipped ==
    /\ pc = "unlink"
    /\ pc' = "build"
    /\ UNCHANGED <<packets, game_data, samples, data_file, samples_file, last_game_data_mod_time,
                   game_data_mod_time, sent, hist, lines, max_size, gauges, gauge, line, flavor>>

\* os.unlink(samples_path)
Unlink ==
    /\ pc = "unlink"
    /\ \/ /\ samples_file # None
          /\ samples_file' = None
          /\ pc' = "build"
          /\ hist' = [hist EXCEPT !.unlinked = TRUE]
       \/ /\ Raise("unlink")
          /\ UNCHANGED samples_file
    /\ UNCHANGED <<packets, game_data, samples, data_file, last_game_data_mod_time,
                   game_data_mod_time, sent, idleVars>>

\* The loop sending each packet as the generator yields it, with no list built first:
\* an exception while the later gauges are aggregated comes after the first send.
BuildWhileSending ==
    /\ pc = "build"
    /\ \/ /\ packets' = PacketsTable[game_data, samples, flavor]
          /\ pc' = "send"
          /\ UNCHANGED <<sent, hist>>
       \/ /\ pc' = "except"
          /\ hist' = [hist EXCEPT !.failed_at = "build"]
          /\ sent' = <<PacketsTable[game_data, samples, flavor][1]>>
          /\ UNCHANGED packets
    /\ UNCHANGED <<game_data, samples, data_file, samples_file, last_game_data_mod_time,
                   game_data_mod_time, lines, max_size, gauges, gauge, line, flavor>>

\* packets = list(statsd_packets_from_lines((line_formatter(g) for g in gauges), 1432))
Build ==
    /\ pc = "build"
    /\ \/ /\ packets' = PacketsTable[game_data, samples, flavor]
          /\ pc' = "send"
          /\ UNCHANGED hist
       \/ /\ Raise("build")
          /\ UNCHANGED packets
    /\ UNCHANGED <<game_data, samples, data_file, samples_file, last_game_data_mod_time,
                   game_data_mod_time, sent, idleVars>>

\* for packet in packets: sock.sendto(packet, ...), one pass of the for loop
Send ==
    /\ pc = "send"
    /\ Len(sent) < Len(packets)
    /\ \/ /\ sent' = Append(sent, packets[Len(sent) + 1])
          /\ hist' = [hist EXCEPT !.sent_in = @ \cup {<<hist.read, hist.pass>>}]
          /\ UNCHANGED pc
       \/ /\ Raise("send")
          /\ UNCHANGED sent
    /\ UNCHANGED <<packets, game_data, samples, data_file, samples_file, last_game_data_mod_time,
                   game_data_mod_time, idleVars>>

\* logging.info(f"sent {len(packets)} packets to statsd"), and the pass ends
LogSent ==
    /\ pc = "send"
    /\ Len(sent) = Len(packets)
    /\ Continue([hist EXCEPT !.failures = 0])
    /\ UNCHANGED <<game_data, data_file, samples_file, last_game_data_mod_time, idleVars>>

\* except Exception: logging.exception("forwarder exception"); time.sleep(1.0)
Except ==
    /\ pc = "except"
    /\ Continue([hist EXCEPT !.slept = SleepError, !.failures = @ + 1])
    /\ UNCHANGED <<game_data, data_file, samples_file, last_game_data_mod_time, idleVars>>

Next ==
    \/ WriteData \/ WriteSamples
    \/ ExistsData \/ GetMtime \/ LoadGameData \/ ExistsSamples \/ ReadSamples
    \/ Unlink \/ Build \/ Send \/ LogSent \/ Except

Spec == Init /\ [][Next]_vars

LoopPositions ==
    {"exists_data", "getmtime", "load", "exists_samples", "read_samples", "unlink", "build",
     "send", "except"}

\* C7: an exception raised at any step of a pass (getmtime, the parse of either file,
\* the unlink, the build of the packets, a send) never ends the loop: control goes to
\* the except clause, which sleeps 1.0 and starts the next pass at the test for the
\* reference file, however many passes in a row have failed.
C7_ExceptionsNeverEndTheLoop ==
    /\ [](pc \in LoopPositions)
    /\ [][/\ (hist.failed_at = "" /\ hist'.failed_at # "") => pc' = "except"
          /\ (pc = "except" /\ pc' # "except") =>
                /\ pc' = "exists_data"
                /\ hist'.slept = SleepError
                /\ hist'.failures = hist.failures + 1
                /\ hist'.pass = hist.pass + 1]_vars

\* Two passes in a row ended in the except clause, and the third is under way.
C7_Witness == pc = "getmtime" /\ hist.failures = 2 /\ hist.pass = 2

\* C8: the sample file is deleted only by a pass that has read and parsed it, and
\* before that pass sends any packet; a failed read leaves the file in place; so the
\* packets of one snapshot are sent in at most one pass, also when the pass fails later.
C8_SampleConsumedOnce ==
    /\ [](\A id \in 1..MaxSnapshots : Cardinality({x \in hist.sent_in : x[1] = id}) <= 1)
    /\ [][/\ (samples_file # None /\ samples_file' = None) =>
                (hist.read # 0 /\ hist.failed_at = "" /\ sent = <<>> /\ sent' = <<>>)
          /\ (hist.failed_at = "" /\ hist'.failed_at = "read_samples") =>
                samples_file' = samples_file
          /\ (Len(sent') > Len(sent)) => (hist.unlinked /\ hist.read # 0)]_vars

\* A pass read a snapshot, deleted the file, sent a packet of it and then failed at a
\* send; the next pass runs and the snapshot has been sent in one pass only.
C8_Witness ==
    /\ hist.failures = 1
    /\ pc = "exists_samples"
    /\ samples_file = None
    /\ \E x \in hist.sent_in : x[2] = hist.pass - 1

\* C9: with the reference file present, a pass reuses the data it holds, without
\* parsing, when the file's modification time is the recorded one; otherwise (no data
\* held, or a time that differs from the recorded one, whether later or earlier) it
\* parses the file, replaces the data and records the new time.
C9_ReloadWhenMtimeDiffers ==
    [][(pc = "load" /\ pc' = "exists_samples") =>
          IF game_data # None /\ game_data_mod_time = last_game_data_mod_time
          THEN ~hist'.parsed_data /\ game_data' = game_data
          ELSE /\ hist'.parsed_data
               /\ game_data' = data_file.content
               /\ last_game_data_mod_time' = game_data_mod_time]_vars

BeforeSend ==
    {"exists_data", "getmtime", "load", "exists_samples", "read_samples", "unlink", "build"}

\* C10: a pass that fails before the send step has sent no packet: the whole list of
\* packets is built before the first send; packets are sent in the order of the list,
\* so only a failing send leaves a strict prefix of the list sent.
C10_NothingSentBeforeTheListIsBuilt ==
    /\ pc \in BeforeSend => sent = <<>>
    /\ (pc = "except" /\ hist.failed_at # "send") => sent = <<>>
    /\ sent # <<>> => /\ packets # None
                      /\ Len(sent) <= Len(packets)
                      /\ sent = SubSeq(packets, 1, Len(sent))
    /\ (pc = "except" /\ hist.failed_at = "send") => Len(sent) < Len(packets)

\* A list of two packets: the first was sent, the send of the second failed.
C10_Witness ==
    /\ pc = "except"
    /\ hist.failed_at = "send"
    /\ Len(packets) = 2
    /\ sent = <<packets[1]>>
    /\ packets[1] # packets[2]

=============================================================================
